---- MODULE Spec2Model ----
(***************************************************************************)
(* Model of model-optimizer/extensions/front/onnx/squeeze_ext.py:          *)
(* SqueezeFrontExtractor.extract, the ONNX front extractor of the Squeeze  *)
(* operation.  A call of extract is split at its source lines (30, 32-34,  *)
(* 37, 38) so that calls running in different threads interleave.          *)
(***************************************************************************)
EXTENDS Integers, Sequences, FiniteSets, TLC

\* ---------------------------------------------------------------- bounds
NumNodes == 2
NumThreads == 2
MaxLen == 2
MaxAxis == 1
MaxCalls == 2

Nodes == 1..NumNodes
Threads == 1..NumThreads
AxisVals == (0 - MaxAxis)..MaxAxis

RECURSIVE SeqsUpTo(_)
SeqsUpTo(n) ==
  IF n = 0 THEN {<< >>}
  ELSE LET shorter == SeqsUpTo(n - 1)
       IN shorter \cup {Append(s, v) : s \in {x \in shorter : Len(x) = n - 1}, v \in AxisVals}

AxesLists == SeqsUpTo(MaxLen)

\* ---------------------------------------------------------------- values
\* Python values stored in a node's attribute bag.
None == [tag |-> "None", val |-> << >>]
Ints(s) == [tag |-> "ndarray", val |-> s]
Str(n) == [tag |-> "str", val |-> <<n>>]

\* The serialized "axes" attribute of a node's protobuf: absent, or a list.
AbsentAttr == [present |-> FALSE, ints |-> << >>]
PresentAttr(s) == [present |-> TRUE, ints |-> s]
RawAttrs == {AbsentAttr} \cup {PresentAttr(s) : s \in AxesLists}

\* The graphs of the concurrent specification draw each node's "axes" from
\* the three cases extract distinguishes.
ConcRawAttrs == {AbsentAttr, PresentAttr(<< >>), PresentAttr(<<0, 0 - 1>>)}

EmptyMap == [k \in {} |-> None]

\* The attributes a node carries before extraction, without / with an
\* earlier value of squeeze_dims.
BaseAttrs(n) == [k \in {"name"} |-> Str(n)]
PriorAttrs(n) == [k \in {"name", "squeeze_dims"} |-> IF k = "name" THEN Str(n) ELSE Ints(<<0>>)]

VARIABLES
  rawAxes,    \* [node -> the "axes" attribute of node.pb]
  nodeAttrs,  \* [node -> attribute bag of the node]
  op,         \* SqueezeFrontExtractor.op
  enabled,    \* SqueezeFrontExtractor.enabled
  pc,         \* [thread -> position in extract]
  node,       \* [thread -> the node argument of the running call]
  axis,       \* [thread -> local `axis`]
  attrs,      \* [thread -> local `attrs`]
  ret,        \* [thread -> value returned by the last call]
  err,        \* [thread -> which collaborator raised in the last call]
  pre,        \* [thread -> the node's attribute bag when the call began]
  post,       \* [thread -> the node's attribute bag when the call ended]
  updates,    \* [thread -> update_node_stat invocations of the call]
  overlap,    \* [thread -> another call was running during this call]
  written,    \* squeeze_dims values handed to nodes by extract
  afterCall,  \* [node -> attribute bags after each completed call]
  calls       \* number of extract calls begun

vars == <<rawAxes, nodeAttrs, op, enabled, pc, node, axis, attrs, ret, err,
          pre, post, updates, overlap, written, afterCall, calls>>

\* ---------------------------------------------------------------- helpers
\* mo.front.onnx.extractors.utils.onnx_attr(node, name, field, default):
\* the attribute's value, or the default when the node has no such attribute.
onnx_attr(n, default) ==
  IF rawAxes[n].present THEN rawAxes[n].ints ELSE default

\* Variant: a default that is not the empty list.
DefaultAxesZero == <<0>>

\* default=[] of line 30
DefaultAxes == << >>

\* Variant: the array holds the elements in reverse order.
NpArrayReversed(s) == [i \in 1..Len(s) |-> s[Len(s) + 1 - i]]

\* np.array(list, dtype=np.int64): a new one-dimensional array holding the
\* list's elements at the same positions (protobuf "ints" are int64 already).
NpArrayInt64(s) == [i \in 1..Len(s) |-> s[i]]

\* Variant: the array is passed on as it is, empty or not.
SqueezeDimsRaw(a) == Ints(a)

\* line 33: axis if len(axis) != 0 else None
SqueezeDims(a) == IF Len(a) # 0 THEN Ints(a) ELSE None

\* Variant: the empty array is stored instead of None.
MakeAttrsKeepEmpty(t) == [k \in {"squeeze_dims"} |-> Ints(axis[t])]

\* Variant: the new axes are appended to the squeeze_dims the node has.
MakeAttrsAccumulate(t) ==
  LET old == IF "squeeze_dims" \in DOMAIN nodeAttrs[node[t]]
                  /\ nodeAttrs[node[t]]["squeeze_dims"].tag = "ndarray"
             THEN nodeAttrs[node[t]]["squeeze_dims"].val
             ELSE << >>
  IN [k \in {"squeeze_dims"} |-> SqueezeDims(old \o axis[t])]

\* Variant: squeeze_dims is left out of the dictionary when there are no axes.
MakeAttrsSkipNone(t) ==
  IF Len(axis[t]) # 0 THEN [k \in {"squeeze_dims"} |-> Ints(axis[t])] ELSE [k \in {} |-> None]

\* Variant: the raw axes are passed on under a second key.
MakeAttrsExtraKey(t) ==
  [k \in {"squeeze_dims", "axes"} |-> IF k = "axes" THEN Ints(axis[t]) ELSE SqueezeDims(axis[t])]

\* lines 32-34: the attrs dictionary
MakeAttrs(t) == [k \in {"squeeze_dims"} |-> SqueezeDims(axis[t])]

\* Squeeze.update_node_stat(node, attrs): merges attrs into the node's bag,
\* overwriting the keys it names.
Merge(bag, m) ==
  [k \in (DOMAIN bag) \cup (DOMAIN m) |-> IF k \in DOMAIN m THEN m[k] ELSE bag[k]]

\* Variant: the call reports whether it found axes.
HandledIfAxes(t) == IF Len(axis[t]) # 0 THEN "True" ELSE "False"

\* line 38: return cls.enabled
Handled(t) == IF enabled THEN "True" ELSE "False"

Active(t) == pc[t] \in {"l30", "l32", "l37", "l38"}

\* ---------------------------------------------------------------- Init
\* No call has begun: the class attributes as declared (lines 25-26), every
\* thread outside extract.
InitCalls ==
  /\ op = "Squeeze"
  /\ enabled = TRUE
  /\ pc = [t \in Threads |-> "idle"]
  /\ node = [t \in Threads |-> 1]
  /\ axis = [t \in Threads |-> << >>]
  /\ attrs = [t \in Threads |-> EmptyMap]
  /\ ret = [t \in Threads |-> "NoValue"]
  /\ err = [t \in Threads |-> "none"]
  /\ pre = [t \in Threads |-> EmptyMap]
  /\ post = [t \in Threads |-> EmptyMap]
  /\ updates = [t \in Threads |-> 0]
  /\ overlap = [t \in Threads |-> FALSE]
  /\ written = {}
  /\ afterCall = [n \in Nodes |-> << >>]
  /\ calls = 0

\* The graph of the sequential pass: node 1 carries any "axes" attribute and
\* may carry an earlier squeeze_dims; the other nodes carry no "axes".
Init ==
  /\ \E r \in RawAttrs : rawAxes = [n \in Nodes |-> IF n = 1 THEN r ELSE AbsentAttr]
  /\ \E a \in {BaseAttrs(1), PriorAttrs(1)} :
       nodeAttrs = [n \in Nodes |-> IF n = 1 THEN a ELSE PriorAttrs(n)]
  /\ InitCalls

\* The graph of the concurrent calls: every node carries one of the three
\* cases of "axes" and an earlier squeeze_dims.
InitConc ==
  /\ rawAxes \in [Nodes -> ConcRawAttrs]
  /\ nodeAttrs = [n \in Nodes |-> PriorAttrs(n)]
  /\ InitCalls

\* ---------------------------------------------------------------- actions
\* The host pipeline calls extract(node).  It never runs two calls on the
\* same node instance at once.
Call(t, n) ==
  /\ pc[t] \in {"idle", "returned", "raised"}
  /\ calls < MaxCalls
  /\ \A u \in Threads : Active(u) => node[u] # n
  /\ pc' = [pc EXCEPT ![t] = "l30"]
  /\ node' = [node EXCEPT ![t] = n]
  /\ axis' = [axis EXCEPT ![t] = << >>]
  /\ attrs' = [attrs EXCEPT ![t] = EmptyMap]
  /\ ret' = [ret EXCEPT ![t] = "NoValue"]
  /\ err' = [err EXCEPT ![t] = "none"]
  /\ pre' = [pre EXCEPT ![t] = nodeAttrs[n]]
  /\ post' = [post EXCEPT ![t] = EmptyMap]
  /\ updates' = [updates EXCEPT ![t] = 0]
  /\ overlap' = [u \in Threads |->
                   IF u = t THEN \E w \in Threads \ {t} : Active(w)
                   ELSE IF Active(u) THEN TRUE ELSE overlap[u]]
  /\ calls' = calls + 1
  /\ UNCHANGED <<rawAxes, nodeAttrs, op, enabled, written, afterCall>>

\* Variant: the array is kept in a module-level variable all calls share.
LookupShared(t) ==
  /\ pc[t] = "l30"
  /\ axis' = [u \in Threads |-> NpArrayInt64(onnx_attr(node[t], DefaultAxes))]
  /\ pc' = [pc EXCEPT ![t] = "l32"]
  /\ UNCHANGED <<rawAxes, nodeAttrs, op, enabled, node, attrs, ret, err, pre, post,
                 updates, overlap, written, afterCall, calls>>

\* line 30: axis = np.array(onnx_attr(node, 'axes', 'ints', default=[]), dtype=np.int64)
Lookup(t) ==
  /\ pc[t] = "l30"
  /\ axis' = [axis EXCEPT ![t] = NpArrayInt64(onnx_attr(node[t], DefaultAxes))]
  /\ pc' = [pc EXCEPT ![t] = "l32"]
  /\ UNCHANGED <<rawAxes, nodeAttrs, op, enabled, node, attrs, ret, err, pre, post,
                 updates, overlap, written, afterCall, calls>>

\* Variant: the failure is caught and the default is used instead.
LookupSwallows(t) ==
  /\ pc[t] = "l30"
  /\ pc' = [pc EXCEPT ![t] = "l32"]
  /\ err' = [err EXCEPT ![t] = "lookup"]
  /\ axis' = [axis EXCEPT ![t] = << >>]
  /\ UNCHANGED <<rawAxes, nodeAttrs, op, enabled, node, attrs, ret, pre, post,
                 updates, overlap, written, afterCall, calls>>

\* line 30, onnx_attr raises: nothing in extract catches it.
LookupRaises(t) ==
  /\ pc[t] = "l30"
  /\ pc' = [pc EXCEPT ![t] = "raised"]
  /\ err' = [err EXCEPT ![t] = "lookup"]
  /\ post' = [post EXCEPT ![t] = nodeAttrs[node[t]]]
  /\ UNCHANGED <<rawAxes, nodeAttrs, op, enabled, node, axis, attrs, ret, pre,
                 updates, overlap, written, afterCall, calls>>

\* lines 32-34: attrs = {'squeeze_dims': axis if len(axis) != 0 else None}
BuildAttrs(t) ==
  /\ pc[t] = "l32"
  /\ attrs' = [attrs EXCEPT ![t] = MakeAttrs(t)]
  /\ pc' = [pc EXCEPT ![t] = "l37"]
  /\ UNCHANGED <<rawAxes, nodeAttrs, op, enabled, node, axis, ret, err, pre, post,
                 updates, overlap, written, afterCall, calls>>

\* line 37: Squeeze.update_node_stat(node, attrs)
Update(t) ==
  /\ pc[t] = "l37"
  /\ nodeAttrs' = [nodeAttrs EXCEPT ![node[t]] = Merge(@, attrs[t])]
  /\ updates' = [updates EXCEPT ![t] = @ + 1]
  /\ written' = written \cup {attrs[t][k] : k \in (DOMAIN attrs[t]) \cap {"squeeze_dims"}}
  /\ pc' = [pc EXCEPT ![t] = "l38"]
  /\ UNCHANGED <<rawAxes, op, enabled, node, axis, attrs, ret, err, pre, post,
                 overlap, afterCall, calls>>

\* line 37, update_node_stat raises: nothing in extract catches it.  The
\* collaborator may have merged the attributes before it failed, or not.
UpdateRaises(t) ==
  /\ pc[t] = "l37"
  /\ \E merged \in BOOLEAN :
       /\ nodeAttrs' = [nodeAttrs EXCEPT ![node[t]] = IF merged THEN Merge(@, attrs[t]) ELSE @]
       /\ written' = IF merged
                     THEN written \cup {attrs[t][k] : k \in (DOMAIN attrs[t]) \cap {"squeeze_dims"}}
                     ELSE written
       /\ post' = [post EXCEPT ![t] = nodeAttrs'[node[t]]]
  /\ updates' = [updates EXCEPT ![t] = @ + 1]
  /\ pc' = [pc EXCEPT ![t] = "raised"]
  /\ err' = [err EXCEPT ![t] = "update"]
  /\ UNCHANGED <<rawAxes, op, enabled, node, axis, attrs, ret, pre,
                 overlap, afterCall, calls>>

\* line 38: return cls.enabled
Return(t) ==
  /\ pc[t] = "l38"
  /\ ret' = [ret EXCEPT ![t] = Handled(t)]
  /\ post' = [post EXCEPT ![t] = nodeAttrs[node[t]]]
  /\ afterCall' = [afterCall EXCEPT ![node[t]] = Append(@, nodeAttrs[node[t]])]
  /\ pc' = [pc EXCEPT ![t] = "returned"]
  /\ UNCHANGED <<rawAxes, nodeAttrs, op, enabled, node, axis, attrs, err, pre,
                 updates, overlap, written, calls>>

\* The host pipeline's sequential pass: one thread calls extract on one
\* node after another.
Next ==
  \/ \E n \in Nodes : Call(1, n)
  \/ Lookup(1)
  \/ LookupRaises(1)
  \/ BuildAttrs(1)
  \/ Update(1)
  \/ UpdateRaises(1)
  \/ Return(1)

Spec == Init /\ [][Next]_vars

\* Calls of extract running in several threads, on different node instances.
NextConc ==
  \/ \E t \in Threads, n \in Nodes : Call(t, n)
  \/ \E t \in Threads : Lookup(t)
  \/ \E t \in Threads : LookupRaises(t)
  \/ \E t \in Threads : BuildAttrs(t)
  \/ \E t \in Threads : Update(t)
  \/ \E t \in Threads : UpdateRaises(t)
  \/ \E t \in Threads : Return(t)

SpecConc == InitConc /\ [][NextConc]_vars


\* ---------------------------------------------------------------- claims
HasAxes(n) == rawAxes[n].present
Finished(t) == pc[t] = "returned"
Built(t) == pc[t] \in {"l37", "l38", "returned"}

\* The squeeze_dims the specification prescribes for a node, read off the
\* node's serialized "axes" attribute.
Expected(n) ==
  IF rawAxes[n].present /\ rawAxes[n].ints # << >> THEN Ints(rawAxes[n].ints) ELSE None

\* C1: on a node without "axes", extract hands squeeze_dims = None to the
\* update routine, and the node's squeeze_dims is None when the call returns.
C1_AbsentGivesNone ==
  \A t \in Threads :
    ~HasAxes(node[t]) =>
      /\ Built(t) => attrs[t] = [k \in {"squeeze_dims"} |-> None]
      /\ Finished(t) => /\ "squeeze_dims" \in DOMAIN post[t]
                        /\ post[t]["squeeze_dims"] = None

C1_Witness ==
  \E t \in Threads :
    /\ Finished(t)
    /\ ~HasAxes(node[t])
    /\ "squeeze_dims" \in DOMAIN pre[t]
    /\ pre[t]["squeeze_dims"] # None

\* C2: on a node whose "axes" is the empty list, extract yields squeeze_dims =
\* None, the same derived parameter as for a node without "axes".
C2_EmptyGivesNone ==
  /\ \A t \in Threads :
       Finished(t) /\ HasAxes(node[t]) /\ rawAxes[node[t]].ints = << >> =>
         /\ attrs[t]["squeeze_dims"] = None
         /\ post[t]["squeeze_dims"] = None
  /\ \A n, m \in Nodes :
       /\ HasAxes(n) /\ rawAxes[n].ints = << >> /\ ~HasAxes(m)
       /\ afterCall[n] # << >> /\ afterCall[m] # << >>
       => afterCall[n][1]["squeeze_dims"] = afterCall[m][1]["squeeze_dims"]

C2_Witness ==
  \E n, m \in Nodes :
    /\ HasAxes(n) /\ rawAxes[n].ints = << >> /\ ~HasAxes(m)
    /\ afterCall[n] # << >> /\ afterCall[m] # << >>

\* C3: on a node whose "axes" is a non-empty list, extract yields squeeze_dims
\* equal to that list: same length, same element at every position.
C3_NonEmptyPreserved ==
  \A t \in Threads :
    Finished(t) /\ HasAxes(node[t]) /\ Len(rawAxes[node[t]].ints) > 0 =>
      LET raw == rawAxes[node[t]].ints
          got == post[t]["squeeze_dims"]
      IN /\ got.tag = "ndarray"
         /\ Len(got.val) = Len(raw)
         /\ \A i \in 1..Len(raw) : got.val[i] = raw[i]

\* a list out of ascending order, with a negative element
C3_Witness ==
  \E t \in Threads :
    /\ Finished(t)
    /\ HasAxes(node[t])
    /\ Len(rawAxes[node[t]].ints) = 2
    /\ rawAxes[node[t]].ints[1] > rawAxes[node[t]].ints[2]
    /\ rawAxes[node[t]].ints[2] < 0

\* C4: every call of extract that completes returns True.
C4_ReturnsTrue ==
  \A t \in Threads : Finished(t) => ret[t] = "True"

C4_Witness ==
  \E t \in Threads : Finished(t) /\ ~HasAxes(node[t]) /\ ret[t] = "True"

\* C5: no squeeze_dims value written by extract is an empty sequence; it is
\* None or an array of at least one element.
C5_NeverEmptySequence ==
  \A v \in written :
    /\ v # Ints(<< >>)
    /\ v = None \/ (v.tag = "ndarray" /\ Len(v.val) >= 1)

C5_Witness ==
  \E t \in Threads :
    /\ pc[t] \in {"l38", "returned"}
    /\ HasAxes(node[t])
    /\ rawAxes[node[t]].ints = << >>
    /\ None \in written

\* C6: successive calls of extract on the same node leave the same
\* squeeze_dims and the same attribute bag each time.
C6_Idempotent ==
  \A n \in Nodes :
    \A i, j \in 1..Len(afterCall[n]) :
      /\ afterCall[n][i]["squeeze_dims"] = afterCall[n][j]["squeeze_dims"]
      /\ afterCall[n][i] = afterCall[n][j]

C6_Witness ==
  \E n \in Nodes :
    /\ Len(afterCall[n]) >= 2
    /\ HasAxes(n)
    /\ Len(rawAxes[n].ints) > 0

\* C7: when extract returns, the node has the key squeeze_dims, its value is
\* the one the raw "axes" prescribes whatever the node held before, and
\* the update routine was invoked exactly once in the call.
C7_OverwritesOnce ==
  \A t \in Threads :
    Finished(t) =>
      /\ "squeeze_dims" \in DOMAIN post[t]
      /\ post[t]["squeeze_dims"] = Expected(node[t])
      /\ updates[t] = 1

\* an earlier array value was overwritten by None
C7_Witness ==
  \E t \in Threads :
    /\ Finished(t)
    /\ "squeeze_dims" \in DOMAIN pre[t]
    /\ pre[t]["squeeze_dims"] = Ints(<<0>>)
    /\ post[t]["squeeze_dims"] = None

\* C8: the dictionary handed to the update routine has the single key
\* squeeze_dims, and no step of extract changes a node's raw "axes", the
\* attributes of a node other than the one it was called on, or the
\* extractor's op and enabled attributes.
FrameStep ==
  /\ rawAxes' = rawAxes
  /\ op' = op /\ op = "Squeeze"
  /\ enabled' = enabled /\ enabled = TRUE
  /\ \A t \in Threads : pc'[t] = "l37" => DOMAIN attrs'[t] = {"squeeze_dims"}
  /\ \A m \in Nodes :
       nodeAttrs'[m] # nodeAttrs[m] =>
         \E t \in Threads : pc[t] = "l37" /\ node[t] = m /\ DOMAIN attrs[t] = {"squeeze_dims"}

C8_Frame == [][FrameStep]_vars

C8_Witness ==
  \E t \in Threads :
    /\ Finished(t)
    /\ post[t] # pre[t]
    /\ \E m \in Nodes \ {node[t]} : nodeAttrs[m] = PriorAttrs(m)

\* C9: when the attribute lookup raises, the call ends with the exception: the
\* update routine was not invoked, the node's attributes are those it had
\* before the call, and nothing is returned.  When the update routine raises,
\* the call ends with the exception and nothing is returned.
C9_FailurePropagates ==
  \A t \in Threads :
    /\ err[t] = "lookup" =>
         /\ pc[t] = "raised"
         /\ updates[t] = 0
         /\ post[t] = pre[t]
         /\ ret[t] = "NoValue"
    /\ err[t] = "update" => pc[t] = "raised" /\ ret[t] = "NoValue"
    /\ pc[t] = "raised" => err[t] # "none"

C9_Witness ==
  \E t \in Threads :
    /\ err[t] = "lookup"
    /\ pc[t] = "raised"
    /\ Expected(node[t]) # None
    /\ pre[t] # Merge(pre[t], [k \in {"squeeze_dims"} |-> Expected(node[t])])

\* C10: a call of extract that ran while another call was running on a
\* different node returns True and leaves on its node the squeeze_dims that
\* node's own "axes" prescribes; every node a call has completed on holds it.
C10_NoInterference ==
  /\ \A t \in Threads :
       Finished(t) /\ overlap[t] =>
         /\ post[t]["squeeze_dims"] = Expected(node[t])
         /\ ret[t] = "True"
  /\ \A n \in Nodes :
       afterCall[n] # << >> => nodeAttrs[n]["squeeze_dims"] = Expected(n)

C10_Witness ==
  \E t, u \in Threads :
    /\ t # u
    /\ Finished(t) /\ Finished(u)
    /\ overlap[t] /\ overlap[u]
    /\ node[t] # node[u]
    /\ Expected(node[t]) # Expected(node[u])

====
